---- MODULE Spec2Model ----
(***************************************************************************)
(* Snake BnB: the availability / booking core of services/data_service.py  *)
(* (get_available_cages, book_cage, add_available_date) over the cages     *)
(* collection, called by several processes that share one store.           *)
(*                                                                         *)
(* A cage document is a record with its scalar fields and the embedded     *)
(* list `bookings`.  A booking window is a record of the five fields the   *)
(* code reads or writes; an unset field (Python None) is the value None.   *)
(* Dates and timestamps are integers (days) and lengths / square metres    *)
(* are integers, compared as the exact rationals the floats denote.        *)
(***************************************************************************)
EXTENDS Integers, Sequences, FiniteSets, TLC

(* ---------------------------------------------------------------- bounds *)
MaxWindows == 2        \* windows the store may hold, over all cages
MaxBookings == 2       \* successful book_cage calls in one behaviour

MaxOwners == 2         \* owners the store may hold
MaxListed == 1         \* windows the hosts of the command loops may add
MaxStays == 2          \* stays the guests of the command loops may book

None == 0

Sessions == {1, 2}     \* processes sharing the store
CageIds == {1, 2}      \* cages registered in the store
SnakeIds == {3, 4}     \* Snake.id of the stored snakes

Dates == {1, 2, 3}     \* the dates a guest enters (days since an epoch)
StartDates == {1, 2}   \* the dates a host enters for a new window
Days == {0, 2}         \* the lengths a host enters for a new window

Emails == {"a", "b"}   \* the emails a user enters, trimmed and lower-cased
Modes == {"guest", "host"}

(* The (checkin, checkout) pairs a caller passes on: book_a_cage returns   *)
(* at line 182 unless checkin < checkout.                                  *)
Requests == {r \in Dates \X Dates : r[1] < r[2]}

(* data/snakes.py: the two fields of a stored snake the matcher reads.     *)
SnakeDoc(id) == [length |-> 1 + id, is_venomous |-> (id % 2 = 0)]

(* Owner.snake_ids of each stored account: owner 1 has snake 3 (4 long,    *)
(* harmless), owner 2 has snake 4 (5 long, venomous).                      *)
snake_ids(owner) == {id \in SnakeIds : id = owner + 2}

(* data/cages.py: the scalar fields register_cage stores for a cage.       *)
(* Cage 1 takes both snakes.  Cage 2 is either too small for snake 4, at   *)
(* cage 1's price, or cheaper, large enough and closed to venomous snakes, *)
(* or equal to cage 1 in price and size.                                   *)
CageKinds(id) ==
    IF id = 1
    THEN { [price |-> 2, square_meters |-> 2, allow_dangerous_snakes |-> TRUE] }
    ELSE { [price |-> 2, square_meters |-> 1, allow_dangerous_snakes |-> TRUE],
           [price |-> 1, square_meters |-> 2, allow_dangerous_snakes |-> FALSE],
           [price |-> 2, square_meters |-> 2, allow_dangerous_snakes |-> TRUE] }

(* state.active_account of each process: session s is logged in as the     *)
(* owner with id s.                                                        *)
active_account == [s \in Sessions |-> s]

(* data/bookings.py: Booking() as add_available_date fills it in.          *)
Booking(check_in, check_out) ==
    [ guest_owner_id |-> None, guest_snake_id |-> None, booked_date |-> None,
      check_in_date |-> check_in, check_out_date |-> check_out ]

VARIABLES
    cages,     \* the cages collection: id -> document
    now,       \* datetime.datetime.now(), as the number of the next booking
    doc,       \* per session: the Cage object it holds in memory (id, bookings)
    ret,       \* the last service call: function, outcome, result
    owners,    \* the owners collection, in insertion order (Owner.id = position)
    state,     \* per session: infrastructure.state.active_account
    mode,      \* per session: the command loop it is in, "guest" or "host"
    pc         \* per session: where it is inside a command handler

vars == <<cages, now, doc, ret>>

session == <<owners, state, mode, pc>>

allvars == <<cages, now, doc, ret, owners, state, mode, pc>>

(* A session that holds no Cage object.                                    *)
NoDoc == [id |-> None, bookings |-> <<>>]

(* The last call: the function and what its caller got: outcome "ok" when  *)
(* it returned, else the exception raised; result, the ids of the cages a  *)
(* query returned; idx, the position in cage.bookings of the window        *)
(* book_cage bound to `booking`.                                           *)
NoCall ==
    [ op |-> "none", outcome |-> "ok", result |-> <<>>, idx |-> None ]

(* data/owners.py: a stored owner, the fields the code reads or writes.    *)
Owner(email, snakes, cage_list) ==
    [ email |-> email, snake_ids |-> snakes, cage_ids |-> cage_list ]

(* state.active_account = None.                                           *)
NoAccount ==
    [ id |-> None, email |-> "", cage_ids |-> <<>> ]

(* The Owner object a query on the owners collection returns for the      *)
(* document at position id: the fields the handlers read from the object   *)
(* (its snake_ids are always read from the store, by id).                  *)
Load(store, id) ==
    [ id |-> id, email |-> store[id].email, cage_ids |-> store[id].cage_ids ]

(* A session between two commands.                                         *)
Idle == [ at |-> "idle" ]

(* ------------------------------------------------- get_available_cages  *)

(* The window predicate without its test for a guest.                     *)
MatchesAnyGuest(b, checkin, checkout) ==
    /\ b.check_in_date <= checkin
    /\ b.check_out_date >= checkout

(* The window predicate testing overlap with the request, not containment. *)
MatchesOverlap(b, checkin, checkout) ==
    /\ b.check_in_date <= checkout
    /\ b.check_out_date >= checkin
    /\ b.guest_snake_id = None

(* The line-222 / line-259 predicate on one window.                        *)
Matches(b, checkin, checkout) ==
    /\ b.check_in_date <= checkin
    /\ b.check_out_date >= checkout
    /\ b.guest_snake_id = None

(* snake.length / 4 compared with square_meters (square_meters__gte).      *)
FitsSize(c, snake) == 4 * c.square_meters >= SnakeDoc(snake).length

(* The server-side query without its filter on allow_dangerous_snakes.     *)
ServerFilterAnySnake(store, checkin, checkout, snake) ==
    { id \in DOMAIN store :
        /\ FitsSize(store[id], snake)
        /\ \E i \in 1..Len(store[id].bookings) :
              store[id].bookings[i].check_in_date <= checkin
        /\ \E i \in 1..Len(store[id].bookings) :
              store[id].bookings[i].check_out_date >= checkout }

(* The server-side query, lines 207-213.  Each bookings__ filter is a      *)
(* condition on the array field: it holds when SOME element satisfies it,  *)
(* not necessarily the same element for both filters.                      *)
ServerFilter(store, checkin, checkout, snake) ==
    { id \in DOMAIN store :
        /\ FitsSize(store[id], snake)
        /\ \E i \in 1..Len(store[id].bookings) :
              store[id].bookings[i].check_in_date <= checkin
        /\ \E i \in 1..Len(store[id].bookings) :
              store[id].bookings[i].check_out_date >= checkout
        /\ SnakeDoc(snake).is_venomous => store[id].allow_dangerous_snakes }

(* The second key taken ascending.                                        *)
BeforeSizeAscending(c1, c2) ==
    \/ c1.price < c2.price
    \/ c1.price = c2.price /\ c1.square_meters <= c2.square_meters

(* order_by('price', '-square_meters'), line 216.                          *)
Before(c1, c2) ==
    \/ c1.price < c2.price
    \/ c1.price = c2.price /\ c1.square_meters >= c2.square_meters

(* The orders the sorted cursor may deliver a set of cages in: every       *)
(* arrangement sorted on the two keys (the store fixes no order among      *)
(* documents equal in both).                                               *)
OrderBy(store, ids) ==
    { s \in [1..Cardinality(ids) -> ids] :
        /\ \A i, j \in DOMAIN s : i < j => s[i] # s[j]
        /\ \A i, j \in DOMAIN s : i < j => Before(store[s[i]], store[s[j]]) }

(* The inner loop without its break: one append per matching window.      *)
RECURSIVE ScanCageNoBreak(_, _, _, _, _)
ScanCageNoBreak(id, bookings, i, checkin, checkout) ==
    IF i > Len(bookings) THEN <<>>
    ELSE (IF Matches(bookings[i], checkin, checkout) THEN <<id>> ELSE <<>>)
         \o ScanCageNoBreak(id, bookings, i + 1, checkin, checkout)

(* The inner loop, lines 221-224, from window i on: what it appends to     *)
(* final_cages for cage id.                                                *)
RECURSIVE ScanCage(_, _, _, _, _)
ScanCage(id, bookings, i, checkin, checkout) ==
    IF i > Len(bookings) THEN <<>>
    ELSE IF Matches(bookings[i], checkin, checkout)
         THEN <<id>>          \* append, break
         ELSE ScanCage(id, bookings, i + 1, checkin, checkout)

(* The outer loop, lines 219-227, over the cursor's documents in order.    *)
RECURSIVE FinalCages(_, _, _, _, _)
FinalCages(store, sorted, k, checkin, checkout) ==
    IF k > Len(sorted) THEN <<>>
    ELSE ScanCage(sorted[k], store[sorted[k]].bookings, 1, checkin, checkout)
         \o FinalCages(store, sorted, k + 1, checkin, checkout)

(* The results get_available_cages may return on the store.                *)
get_available_cages(store, checkin, checkout, snake) ==
    { FinalCages(store, sorted, 1, checkin, checkout) :
        sorted \in OrderBy(store, ServerFilter(store, checkin, checkout, snake)) }

(* ---------------------------------------------------------------- Init  *)
Init ==
    /\ \E kind \in [CageIds -> UNION {CageKinds(id) : id \in CageIds}] :
          /\ \A id \in CageIds : kind[id] \in CageKinds(id)
          /\ cages = [id \in CageIds |->
                         [price |-> kind[id].price,
                          square_meters |-> kind[id].square_meters,
                          allow_dangerous_snakes |-> kind[id].allow_dangerous_snakes,
                          bookings |-> <<>>]]
    /\ now = 1
    /\ doc = [s \in Sessions |-> NoDoc]
    /\ ret = NoCall
    /\ owners = [id \in Sessions |->
                    Owner(IF id = 1 THEN "a" ELSE "b", <<id + 2>>, <<>>)]
    /\ state = [s \in Sessions |-> Load(owners, active_account[s])]
    /\ mode = [s \in Sessions |-> "guest"]
    /\ pc = [s \in Sessions |-> Idle]

(* ------------------------------------------------------------- actions  *)

(* The query dropping, as it goes, the windows that end before the         *)
(* requested stay does.                                                    *)
GetAvailableCagesPruning(s, checkin, checkout, snake) ==
    \E result \in get_available_cages(cages, checkin, checkout, snake) :
        /\ \/ /\ result = <<>>
              /\ doc' = [doc EXCEPT ![s] = NoDoc]
           \/ \E k \in 1..Len(result) :
                 doc' = [doc EXCEPT ![s] =
                            [id |-> result[k], bookings |-> cages[result[k]].bookings]]
        /\ cages' = [id \in DOMAIN cages |->
                        [cages[id] EXCEPT !.bookings =
                            SelectSeq(@, LAMBDA b : b.check_out_date >= checkout)]]
        /\ ret' = [NoCall EXCEPT !.op = "get_available_cages", !.result = result]
        /\ UNCHANGED now

(* A caller runs get_available_cages and keeps one of the returned Cage    *)
(* objects (program_guests.book_a_cage keeps cages[number - 1]).           *)
GetAvailableCages(s, checkin, checkout, snake) ==
    \E result \in get_available_cages(cages, checkin, checkout, snake) :
        /\ \/ /\ result = <<>>
              /\ doc' = [doc EXCEPT ![s] = NoDoc]
           \/ \E k \in 1..Len(result) :
                 doc' = [doc EXCEPT ![s] =
                            [id |-> result[k], bookings |-> cages[result[k]].bookings]]
        /\ ret' = [NoCall EXCEPT !.op = "get_available_cages", !.result = result]
        /\ UNCHANGED <<cages, now>>

(* ------------------------------------------------------------ book_cage  *)

(* The search loop without its break: the last matching window wins.      *)
RECURSIVE FindWindowLast(_, _, _, _)
FindWindowLast(bookings, i, checkin, checkout) ==
    IF i > Len(bookings) THEN None
    ELSE LET later == FindWindowLast(bookings, i + 1, checkin, checkout)
         IN  IF later # None THEN later
             ELSE IF Matches(bookings[i], checkin, checkout) THEN i ELSE None

(* The search loop refusing a range that overlaps a reservation of the    *)
(* cage.                                                                   *)
RECURSIVE FindWindowNoOverlap(_, _, _, _)
FindWindowNoOverlap(bookings, i, checkin, checkout) ==
    IF \E k \in 1..Len(bookings) :
          /\ bookings[k].guest_snake_id # None
          /\ bookings[k].check_in_date < checkout
          /\ checkin < bookings[k].check_out_date
    THEN None
    ELSE IF i > Len(bookings) THEN None
    ELSE IF Matches(bookings[i], checkin, checkout) THEN i
    ELSE FindWindowNoOverlap(bookings, i + 1, checkin, checkout)

(* The search loop, lines 258-261, from window i on: the index of the      *)
(* window bound to `booking`, or None when the loop ends without a match.  *)
RECURSIVE FindWindow(_, _, _, _)
FindWindow(bookings, i, checkin, checkout) ==
    IF i > Len(bookings) THEN None
    ELSE IF Matches(bookings[i], checkin, checkout)
         THEN i               \* booking = b, break
         ELSE FindWindow(bookings, i + 1, checkin, checkout)

(* The assignments without the two date lines.                            *)
ReserveKeepDates(b, account, snake, checkin, checkout, time) ==
    [ guest_owner_id |-> account, guest_snake_id |-> snake,
      check_in_date |-> b.check_in_date, check_out_date |-> b.check_out_date,
      booked_date |-> time ]

(* The assignments without the booked_date line.                          *)
ReserveNoStamp(b, account, snake, checkin, checkout, time) ==
    [ guest_owner_id |-> account, guest_snake_id |-> snake,
      check_in_date |-> checkin, check_out_date |-> checkout,
      booked_date |-> b.booked_date ]

(* Lines 264-268: the five assignments to the matched window.              *)
Reserve(b, account, snake, checkin, checkout, time) ==
    [ guest_owner_id |-> account, guest_snake_id |-> snake,
      check_in_date |-> checkin, check_out_date |-> checkout,
      booked_date |-> time ]

(* A save that writes only while the stored window is still unreserved.    *)
SaveWindowIfOpen(stored, i, before, after) ==
    IF stored.bookings[i].guest_snake_id # None THEN stored
    ELSE [stored EXCEPT !.bookings[i] =
            [f \in DOMAIN after |-> IF after[f] # before[f] THEN after[f] ELSE @[f]]]

(* cage.save() on a document loaded from the store, line 270: MongoEngine  *)
(* sends one update that $sets the fields whose assigned value differed    *)
(* from the value the object held (here bookings.<i>.<field>); the stored  *)
(* document keeps every other field and every other array element.         *)
SaveWindow(stored, i, before, after) ==
    [stored EXCEPT !.bookings[i] =
        [f \in DOMAIN after |-> IF after[f] # before[f] THEN after[f] ELSE @[f]]]

(* book_cage(account, snake, cage, checkin, checkout) on the Cage object   *)
(* the session holds.  With no matching window `booking` stays None and    *)
(* line 264 raises AttributeError before anything is assigned or saved.    *)
BookCageAs(s, account, snake, checkin, checkout, keeps) ==
    /\ doc[s] # NoDoc
    /\ LET cage == doc[s]
           i == FindWindow(cage.bookings, 1, checkin, checkout)
           call == [NoCall EXCEPT !.op = "book_cage"]
       IN  IF i = None
           THEN /\ ret' = [call EXCEPT !.outcome = "AttributeError"]
                /\ UNCHANGED <<cages, now, doc>>
           ELSE LET after == Reserve(cage.bookings[i], account, snake,
                                     checkin, checkout, now)
                IN  /\ now <= MaxBookings
                    /\ doc' = IF keeps THEN [doc EXCEPT ![s].bookings[i] = after]
                                       ELSE [doc EXCEPT ![s] = NoDoc]
                    /\ cages' = [cages EXCEPT ![cage.id] =
                                     SaveWindow(@, i, cage.bookings[i], after)]
                    /\ now' = now + 1
                    /\ ret' = [call EXCEPT !.idx = i]

(* The service-level caller of Spec: session s books as the owner it is    *)
(* logged in as.                                                           *)
BookCage(s, snake, checkin, checkout) ==
    BookCageAs(s, active_account[s], snake, checkin, checkout, TRUE)

(* --------------------------------------------------- add_available_date  *)

(* The new window put in front of the list.                               *)
add_available_date_front(stored, start_date, days) ==
    [stored EXCEPT !.bookings = <<Booking(start_date, start_date + days)>> \o @]

(* Lines 127-134: build the open window, re-fetch the cage by id, append,  *)
(* save.  The caller's own Cage object is not touched (only cage.id is     *)
(* read from it).                                                          *)
add_available_date(stored, start_date, days) ==
    [stored EXCEPT !.bookings = Append(@, Booking(start_date, start_date + days))]

RECURSIVE SumLen(_, _)
SumLen(store, ids) ==
    IF ids = {} THEN 0
    ELSE LET id == CHOOSE x \in ids : TRUE
         IN  Len(store[id].bookings) + SumLen(store, ids \ {id})

NumWindows(store) == SumLen(store, DOMAIN store)

AddAvailableDate(s, id, start_date, days) ==
    /\ NumWindows(cages) < MaxWindows
    /\ cages' = [cages EXCEPT ![id] = add_available_date(@, start_date, days)]
    /\ ret' = [NoCall EXCEPT !.op = "add_available_date"]
    /\ UNCHANGED <<now, doc>>

Next ==
    \E s \in Sessions :
        \/ \E r \in Requests, snake \in snake_ids(active_account[s]) :
              GetAvailableCages(s, r[1], r[2], snake) /\ UNCHANGED session
        \/ \E r \in Requests, snake \in snake_ids(active_account[s]) :
              BookCage(s, snake, r[1], r[2]) /\ UNCHANGED session
        \/ \E id \in CageIds, start_date \in StartDates, days \in Days :
              AddAvailableDate(s, id, start_date, days) /\ UNCHANGED session

Spec == Init /\ [][Next]_allvars

(* ------------------------------------- add_available_date, step by step *)

(* The sessions that are inside add_available_date, between the re-fetch   *)
(* and the save.                                                           *)
Adding == {s \in Sessions : pc[s].at = "add_available_date"}

(* cage.save() at line 134: append marked the whole list changed, so the   *)
(* update sets the stored list to the list of the object.                  *)
SaveBookings(stored, fetched) == [stored EXCEPT !.bookings = fetched]

(* Lines 127-133: build the window, re-fetch the cage by id (one read of   *)
(* the store) and append to the fetched object.                            *)
FetchCage(s, id, start_date, days) ==
    /\ pc[s] = Idle
    /\ NumWindows(cages) < MaxWindows
    /\ pc' = [pc EXCEPT ![s] =
                 [at |-> "add_available_date", id |-> id,
                  bookings |-> Append(cages[id].bookings,
                                      Booking(start_date, start_date + days))]]
    /\ ret' = [NoCall EXCEPT !.op = "fetch"]
    /\ UNCHANGED <<cages, now, doc, owners, state, mode>>

(* Line 134: the save of the fetched object (one write to the store).      *)
SaveCage(s) ==
    /\ s \in Adding
    /\ LET after == [cages EXCEPT ![pc[s].id] = SaveBookings(@, pc[s].bookings)]
       IN  /\ NumWindows(after) <= MaxWindows
           /\ cages' = after
    /\ pc' = [pc EXCEPT ![s] = Idle]
    /\ ret' = [NoCall EXCEPT !.op = "add_available_date"]
    /\ UNCHANGED <<now, doc, owners, state, mode>>

(* The cage and the start date the hosts of SpecStore enter.                *)
RacedCages == {1}
RacedStartDates == {1}

(* The service calls of Spec, with each read and write of the store by     *)
(* add_available_date a step of its own: the sessions are processes, and   *)
(* the store serialises their operations one at a time.                    *)
NextStore ==
    \E s \in Sessions :
        \/ /\ pc[s] = Idle
           /\ \E r \in Requests, snake \in snake_ids(active_account[s]) :
                 GetAvailableCages(s, r[1], r[2], snake) /\ UNCHANGED session
        \/ /\ pc[s] = Idle
           /\ \E r \in Requests, snake \in snake_ids(active_account[s]) :
                 BookCage(s, snake, r[1], r[2]) /\ UNCHANGED session
        \/ \E id \in RacedCages, start_date \in RacedStartDates, days \in Days :
              FetchCage(s, id, start_date, days)
        \/ SaveCage(s)

SpecStore == Init /\ [][NextStore]_allvars

(* ------------------------------------------------------ the command loops *)

(* find_account_by_email, lines 54-56: the Owner objects .first() may      *)
(* return, NoAccount for None.  The query has no order_by, so among owners *)
(* with the same email the store decides which comes first.                *)
find_account_by_email(store, email) ==
    LET hits == {id \in 1..Len(store) : store[id].email = email}
    IN  IF hits = {} THEN {NoAccount} ELSE {Load(store, id) : id \in hits}

(* reload_account looking the owner up by a key no owner has.              *)
reload_account_by_name(account, store) == {NoAccount}

(* state.reload_account, lines 27-34, on the active account `account`.     *)
reload_account(account, store) ==
    IF account = NoAccount THEN {NoAccount}
    ELSE find_account_by_email(store, account.email)

(* The end of a turn of the command loop with `account` active: the guest  *)
(* loop reloads the account after every command (program_guests.py line    *)
(* 72), the host loop does not.                                            *)
EndOfCommand(s, account, store) ==
    \E reloaded \in (IF mode[s] = "guest" THEN reload_account(account, store)
                                            ELSE {account}) :
        state' = [state EXCEPT ![s] = reloaded]

(* What a handler of the command loops leaves as the last call: it went    *)
(* through, or it printed a message with error_msg and returned.           *)
Done == [NoCall EXCEPT !.op = "command"]
Failed == [NoCall EXCEPT !.op = "command", !.outcome = "error_msg"]
MustLogIn == [NoCall EXCEPT !.op = "command", !.outcome = "must log in"]

(* The first lines of every privileged handler: no active account, a       *)
(* message, return.                                                        *)
NotLoggedIn(s) ==
    /\ ret' = MustLogIn
    /\ EndOfCommand(s, state[s], owners)
    /\ UNCHANGED <<cages, now, doc, owners, mode, pc>>

(* The sessions inside create_account, between the lookup and the save.    *)
Creating == {s \in Sessions : pc[s].at = "create_account"}

(* 'm' in a command loop, then the choice of find_user_intent.             *)
ChangeMode(s, m) ==
    /\ pc[s] = Idle
    /\ EndOfCommand(s, state[s], owners)
    /\ mode' = [mode EXCEPT ![s] = m]
    /\ ret' = Done
    /\ UNCHANGED <<cages, now, doc, owners, pc>>

(* create_account, lines 98-105: the email is looked up; a hit is an       *)
(* error, else the handler goes on to create the owner.                    *)
CreateAccountFind(s, email) ==
    /\ pc[s] = Idle
    /\ \E old_account \in find_account_by_email(owners, email) :
          IF old_account # NoAccount
          THEN /\ ret' = Failed
               /\ EndOfCommand(s, state[s], owners)
               /\ UNCHANGED <<cages, now, doc, owners, mode, pc>>
          ELSE /\ Len(owners) + Cardinality(Creating) < MaxOwners
               /\ pc' = [pc EXCEPT ![s] = [at |-> "create_account", email |-> email]]
               /\ ret' = Done
               /\ UNCHANGED <<cages, now, doc, owners, state, mode>>

(* create_account, line 108: svc.create_account saves a new Owner, which   *)
(* becomes the active account.                                             *)
CreateAccountSave(s) ==
    /\ s \in Creating
    /\ owners' = Append(owners, Owner(pc[s].email, <<>>, <<>>))
    /\ EndOfCommand(s, Load(owners', Len(owners')), owners')
    /\ pc' = [pc EXCEPT ![s] = Idle]
    /\ ret' = Done
    /\ UNCHANGED <<cages, now, doc, mode>>

(* log_into_account assigning what the lookup returned before testing it.  *)
LogIntoAccountAssigning(s, email) ==
    /\ pc[s] = Idle
    /\ \E account \in find_account_by_email(owners, email) :
          /\ ret' = IF account = NoAccount THEN Failed ELSE Done
          /\ EndOfCommand(s, account, owners)
    /\ UNCHANGED <<cages, now, doc, owners, mode, pc>>

(* log_into_account, lines 117-128.                                        *)
LogIntoAccount(s, email) ==
    /\ pc[s] = Idle
    /\ \E account \in find_account_by_email(owners, email) :
          IF account = NoAccount
          THEN /\ ret' = Failed
               /\ EndOfCommand(s, state[s], owners)
          ELSE /\ ret' = Done
               /\ EndOfCommand(s, account, owners)
    /\ UNCHANGED <<cages, now, doc, owners, mode, pc>>

(* What the users of SpecCLI enter: the email of a new account, the cage a  *)
(* host registers, the start date of a window.                             *)
NewEmails == {"a"}
ListedCages == {2}
ListedStartDates == {1}
StayDates == Dates

(* The ids in a list of ids.                                               *)
Range(seq) == {seq[k] : k \in 1..Len(seq)}

(* The snakes (cages) some owner of the store is linked to.                *)
LinkedSnakes(store) == UNION {Range(store[id].snake_ids) : id \in 1..Len(store)}
LinkedCages(store) == UNION {Range(store[id].cage_ids) : id \in 1..Len(store)}

(* The sessions inside svc.add_snake, between the lookup of the owner and  *)
(* owner.save().                                                           *)
AddingSnake == {s \in Sessions : pc[s].at = "add_a_snake"}

(* The ids Snake.save() has given out: those still in some snake_ids list, *)
(* those of the calls in flight and those a stored window or a pending     *)
(* book_cage call refers to.  A new snake gets an id outside this set.     *)
SavedSnakes ==
    LinkedSnakes(owners)
    \cup {pc[s].snake : s \in {o \in Sessions : pc[o].at \in {"add_a_snake", "book_a_cage"}}}
    \cup UNION {{cages[id].bookings[i].guest_snake_id : i \in 1..Len(cages[id].bookings)}
                : id \in DOMAIN cages}

(* add_a_snake, lines 102-123, for the snake whose length and venom the    *)
(* user enters, up to line 161 of svc.add_snake: the snake is saved, the   *)
(* owner is fetched by the account's email and the id is appended to the   *)
(* fetched object's snake_ids.                                             *)
AddASnake(s, snake) ==
    /\ pc[s] = Idle /\ mode[s] = "guest"
    /\ IF state[s] = NoAccount
       THEN NotLoggedIn(s)
       ELSE /\ snake \notin SavedSnakes
            /\ \E owner \in find_account_by_email(owners, state[s].email) :
                  pc' = [pc EXCEPT ![s] =
                           [at |-> "add_a_snake", snake |-> snake, owner |-> owner.id,
                            snake_ids |-> Append(owners[owner.id].snake_ids, snake)]]
            /\ ret' = Done
            /\ UNCHANGED <<cages, now, doc, owners, state, mode>>

(* svc.add_snake line 162 and add_a_snake lines 124-125: owner.save()      *)
(* writes the changed field, the whole snake_ids list of the fetched       *)
(* object with the new id; then reload_account.                            *)
SaveOwner(s) ==
    /\ s \in AddingSnake
    /\ owners' = [owners EXCEPT ![pc[s].owner].snake_ids = pc[s].snake_ids]
    /\ EndOfCommand(s, state[s], owners')
    /\ pc' = [pc EXCEPT ![s] = Idle]
    /\ ret' = Done
    /\ UNCHANGED <<cages, now, doc, mode>>

(* view_your_snakes without its login check: line 137 reads the id of     *)
(* None.                                                                   *)
ViewYourSnakesUnguarded(s) ==
    /\ pc[s] = Idle /\ mode[s] = "guest"
    /\ IF state[s] = NoAccount
       THEN /\ ret' = [NoCall EXCEPT !.op = "command", !.outcome = "AttributeError"]
            /\ pc' = [pc EXCEPT ![s] = [at |-> "crashed"]]
            /\ UNCHANGED <<cages, now, doc, owners, state, mode>>
       ELSE /\ ret' = Done
            /\ EndOfCommand(s, state[s], owners)
            /\ UNCHANGED <<cages, now, doc, owners, mode, pc>>

(* view_your_snakes, lines 130-145.                                        *)
ViewYourSnakes(s) ==
    /\ pc[s] = Idle /\ mode[s] = "guest"
    /\ IF state[s] = NoAccount
       THEN NotLoggedIn(s)
       ELSE /\ ret' = Done
            /\ EndOfCommand(s, state[s], owners)
            /\ UNCHANGED <<cages, now, doc, owners, mode, pc>>

(* The sessions inside book_a_cage, between the query and book_cage.       *)
Booked == {s \in Sessions : pc[s].at = "book_a_cage"}

(* book_a_cage without the test of lines 181-184 on the dates.             *)
BookACageQueryUnvalidated(s) ==
    /\ pc[s] = Idle /\ mode[s] = "guest"
    /\ IF state[s] = NoAccount
       THEN NotLoggedIn(s)
       ELSE LET snakes == owners[state[s].id].snake_ids
                return(message) ==
                    /\ ret' = message
                    /\ EndOfCommand(s, state[s], owners)
                    /\ UNCHANGED <<cages, now, doc, owners, mode, pc>>
            IN  IF snakes = <<>> THEN return(Failed)
                ELSE \E checkin \in StayDates, checkout \in StayDates :
                        \E snake \in Range(snakes) :
                        /\ now + Cardinality(Booked) <= MaxStays
                        /\ \E result \in get_available_cages(cages, checkin, checkout, snake) :
                           IF result = <<>> THEN return(Failed)
                           ELSE /\ \E k \in 1..Len(result) :
                                      doc' = [doc EXCEPT ![s] =
                                                [id |-> result[k],
                                                 bookings |-> cages[result[k]].bookings]]
                                /\ pc' = [pc EXCEPT ![s] =
                                             [at |-> "book_a_cage", snake |-> snake,
                                              checkin |-> checkin, checkout |-> checkout]]
                                /\ ret' = Done
                                /\ UNCHANGED <<cages, now, owners, state, mode>>

(* book_a_cage, lines 157-217: the login check, the snakes of the account  *)
(* (read from the store by id), the dates, the snake, the query and the    *)
(* choice of one of the returned Cage objects.                             *)
BookACageQuery(s) ==
    /\ pc[s] = Idle /\ mode[s] = "guest"
    /\ IF state[s] = NoAccount
       THEN NotLoggedIn(s)
       ELSE LET snakes == owners[state[s].id].snake_ids
                return(message) ==
                    /\ ret' = message
                    /\ EndOfCommand(s, state[s], owners)
                    /\ UNCHANGED <<cages, now, doc, owners, mode, pc>>
            IN  IF snakes = <<>> THEN return(Failed)
                ELSE \E checkin \in StayDates, checkout \in StayDates :
                   IF checkin >= checkout
                   THEN return(Failed)
                   ELSE \E snake \in Range(snakes) :
                        /\ now + Cardinality(Booked) <= MaxStays
                        /\ \E result \in get_available_cages(cages, checkin, checkout, snake) :
                           IF result = <<>> THEN return(Failed)
                           ELSE /\ \E k \in 1..Len(result) :
                                      doc' = [doc EXCEPT ![s] =
                                                [id |-> result[k],
                                                 bookings |-> cages[result[k]].bookings]]
                                /\ pc' = [pc EXCEPT ![s] =
                                             [at |-> "book_a_cage", snake |-> snake,
                                              checkin |-> checkin, checkout |-> checkout]]
                                /\ ret' = Done
                                /\ UNCHANGED <<cages, now, owners, state, mode>>

(* book_a_cage, line 218: book_cage for the active account on the chosen   *)
(* Cage object.                                                            *)
BookACageBook(s) ==
    /\ pc[s].at = "book_a_cage"
    /\ BookCageAs(s, state[s].id, pc[s].snake, pc[s].checkin, pc[s].checkout, FALSE)
    /\ IF ret'.outcome = "ok"
       THEN /\ pc' = [pc EXCEPT ![s] = Idle]
            /\ EndOfCommand(s, state[s], owners)
       ELSE /\ pc' = [pc EXCEPT ![s] = [at |-> "crashed"]]
            /\ state' = state
    /\ UNCHANGED <<owners, mode>>

(* get_snakes_for_user, lines 175-180: the ids of the Snake documents in   *)
(* the snake_ids of the owner with this id.                                *)
get_snakes_for_user(store, user_id) == Range(store[user_id].snake_ids)

(* get_bookings_for_user, lines 285-307: the windows, in any cage, whose    *)
(* guest_owner_id is the id of the account found by email; one result for  *)
(* each owner .first() may return.                                         *)
get_bookings_for_user(store, stored_cages, email) ==
    { { <<id, i>> \in UNION {{id} \X (1..Len(stored_cages[id].bookings))
                               : id \in DOMAIN stored_cages} :
          stored_cages[id].bookings[i].guest_owner_id = account.id }
      : account \in find_account_by_email(store, email) }

(* The guest's view_bookings, lines 228-249: line 245 takes .name of the   *)
(* snake the dictionary has for the booking's guest_snake_id, which is     *)
(* None for an id that is not among the account's snakes.                  *)
GuestViewBookings(s) ==
    /\ pc[s] = Idle /\ mode[s] = "guest"
    /\ IF state[s] = NoAccount
       THEN NotLoggedIn(s)
       ELSE LET snakes == get_snakes_for_user(owners, state[s].id)
            IN  \E bookings \in get_bookings_for_user(owners, cages, state[s].email) :
                   IF \A b \in bookings :
                         cages[b[1]].bookings[b[2]].guest_snake_id \in snakes
                   THEN /\ ret' = Done
                        /\ EndOfCommand(s, state[s], owners)
                        /\ UNCHANGED <<cages, now, doc, owners, mode, pc>>
                   ELSE /\ ret' = [NoCall EXCEPT !.op = "view_bookings",
                                                 !.outcome = "AttributeError"]
                        /\ pc' = [pc EXCEPT ![s] = [at |-> "crashed"]]
                        /\ UNCHANGED <<cages, now, doc, owners, state, mode>>

(* register_cage, lines 142-172, for the cage whose size, price and        *)
(* venom policy the user enters: svc.register_cage saves it and appends    *)
(* its id to the owner found by the account's email; then reload_account.  *)
RegisterCage(s, id) ==
    /\ pc[s] = Idle /\ mode[s] = "host"
    /\ IF state[s] = NoAccount
       THEN NotLoggedIn(s)
       ELSE /\ id \notin LinkedCages(owners)
            /\ \E owner \in find_account_by_email(owners, state[s].email) :
                  owners' = [owners EXCEPT ![owner.id].cage_ids = Append(@, id)]
            /\ \E reloaded \in reload_account(state[s], owners') :
                  state' = [state EXCEPT ![s] = reloaded]
            /\ ret' = Done
            /\ UNCHANGED <<cages, now, doc, mode, pc>>

(* list_cages, lines 181-200.                                              *)
ListCages(s) ==
    /\ pc[s] = Idle /\ mode[s] = "host"
    /\ IF state[s] = NoAccount
       THEN NotLoggedIn(s)
       ELSE /\ ret' = Done
            /\ UNCHANGED <<cages, now, doc, owners, state, mode, pc>>

(* update_availability, lines 211-241, up to the re-fetch inside           *)
(* add_available_date: the cage is chosen among those of the in-memory     *)
(* account's cage_ids.                                                     *)
UpdateAvailability(s, id, start_date, days) ==
    /\ pc[s] = Idle /\ mode[s] = "host"
    /\ IF state[s] = NoAccount
       THEN NotLoggedIn(s)
       ELSE /\ id \in Range(state[s].cage_ids)
            /\ NumWindows(cages) + Cardinality(Adding) < MaxListed
            /\ FetchCage(s, id, start_date, days)

(* The host's view_bookings, lines 255-281.                                *)
HostViewBookings(s) ==
    /\ pc[s] = Idle /\ mode[s] = "host"
    /\ IF state[s] = NoAccount
       THEN NotLoggedIn(s)
       ELSE /\ ret' = Done
            /\ UNCHANGED <<cages, now, doc, owners, state, mode, pc>>

(* The processes start with an empty owners collection, nobody logged in,  *)
(* in the guest loop.  The cage documents are those                        *)
(* register_cage will save: a cage is in no owner's cage_ids, and has no   *)
(* window, until it is registered.                                         *)
InitCLI ==
    /\ \E kind \in [CageIds -> UNION {CageKinds(id) : id \in CageIds}] :
          /\ \A id \in CageIds : kind[id] \in CageKinds(id)
          /\ cages = [id \in CageIds |->
                         [price |-> kind[id].price,
                          square_meters |-> kind[id].square_meters,
                          allow_dangerous_snakes |-> kind[id].allow_dangerous_snakes,
                          bookings |-> <<>>]]
    /\ now = 1
    /\ doc = [s \in Sessions |-> NoDoc]
    /\ ret = NoCall
    /\ owners = <<>>
    /\ state = [s \in Sessions |-> NoAccount]
    /\ mode = [s \in Sessions |-> "guest"]
    /\ pc = [s \in Sessions |-> Idle]

NextCLI ==
    \E s \in Sessions :
        \/ \E m \in Modes : ChangeMode(s, m)
        \/ \E email \in NewEmails : CreateAccountFind(s, email)
        \/ CreateAccountSave(s)
        \/ \E email \in Emails : LogIntoAccount(s, email)
        \/ \E snake \in SnakeIds : AddASnake(s, snake)
        \/ SaveOwner(s)
        \/ ViewYourSnakes(s)
        \/ BookACageQuery(s)
        \/ BookACageBook(s)
        \/ GuestViewBookings(s)
        \/ \E id \in ListedCages : RegisterCage(s, id)
        \/ ListCages(s)
        \/ \E id \in ListedCages, start_date \in ListedStartDates, days \in Days :
              UpdateAvailability(s, id, start_date, days)
        \/ SaveCage(s)
        \/ HostViewBookings(s)

SpecCLI == InitCLI /\ [][NextCLI]_allvars

(* ------------------------------------------------------------ vocabulary *)
IsOpen(b) ==
    b.guest_owner_id = None /\ b.guest_snake_id = None /\ b.booked_date = None

IsReserved(b) ==
    b.guest_owner_id # None /\ b.guest_snake_id # None /\ b.booked_date # None

Covers(b, checkin, checkout) ==
    b.check_in_date <= checkin /\ checkout <= b.check_out_date

Occurrences(seq, x) == Cardinality({k \in 1..Len(seq) : seq[k] = x})

(* The session whose book_cage call was the last successful one: its Cage  *)
(* object holds the window stamped with the latest booked_date.            *)
LastBooker(s) ==
    /\ ret.op = "book_cage" /\ ret.outcome = "ok"
    /\ ret.idx \in 1..Len(doc[s].bookings)
    /\ doc[s].bookings[ret.idx].booked_date = now - 1

(* A cage the query should return, stated on the stored cage directly.    *)
Available(c, checkin, checkout, snake) ==
    /\ 4 * c.square_meters >= SnakeDoc(snake).length
    /\ SnakeDoc(snake).is_venomous => c.allow_dangerous_snakes
    /\ \E i \in 1..Len(c.bookings) :
          /\ c.bookings[i].check_in_date <= checkin
          /\ c.bookings[i].check_out_date >= checkout
          /\ c.bookings[i].guest_snake_id = None

(* C1 *)
(* For every store and every query, get_available_cages returns a cage     *)
(* exactly once when it is large enough for the snake (square_meters >=    *)
(* length / 4), allows dangerous snakes if the snake is venomous, and has  *)
(* ONE window that starts on or before checkin, ends on or after checkout  *)
(* and has no guest snake; it returns no other cage.                       *)
C1_AvailableExactlyOnce ==
    \A r \in Requests, snake \in SnakeIds :
       \A result \in get_available_cages(cages, r[1], r[2], snake) :
          /\ \A id \in CageIds :
                Occurrences(result, id) =
                   IF Available(cages[id], r[1], r[2], snake) THEN 1 ELSE 0
          /\ \A k \in 1..Len(result) : result[k] \in CageIds

(* A query came back empty although cage 1, which takes every snake, has   *)
(* a window starting on day 1 and a window ending on day 4: the query was  *)
(* (1,2) or (1,3), whose two bounds only different windows satisfy.        *)
C1_Witness ==
    /\ ret.op = "get_available_cages" /\ ret.result = <<>>
    /\ cages[1].bookings = <<Booking(1, 1), Booking(2, 4)>>


(* C2 *)
(* When book_cage is called on a Cage object with a matching window, the   *)
(* window it reserves is the first matching one in the list's order; the   *)
(* other windows of the cage, their number and order, and every other      *)
(* cage stay as they were, in the object and in the store.                 *)
C2_FirstWindowOnly ==
    [][ ret'.op = "book_cage" =>
        \A s \in Sessions, r \in Requests, snake \in SnakeIds :
           ( /\ BookCage(s, snake, r[1], r[2])
             /\ \E i \in 1..Len(doc[s].bookings) :
                   Covers(doc[s].bookings[i], r[1], r[2])
                   /\ doc[s].bookings[i].guest_snake_id = None )
           => LET id == doc[s].id
                  mine == doc[s].bookings
                  hit(i) == Covers(mine[i], r[1], r[2]) /\ mine[i].guest_snake_id = None
                  first == CHOOSE i \in 1..Len(mine) :
                              hit(i) /\ \A j \in 1..(i - 1) : ~hit(j)
              IN  /\ ret'.outcome = "ok" /\ ret'.idx = first
                  /\ doc'[s].id = id
                  /\ doc'[s].bookings[first].guest_snake_id = snake
                  /\ cages'[id].bookings[first].guest_snake_id = snake
                  /\ Len(doc'[s].bookings) = Len(mine)
                  /\ \A j \in 1..Len(mine) :
                        j # first => doc'[s].bookings[j] = mine[j]
                  /\ Len(cages'[id].bookings) = Len(cages[id].bookings)
                  /\ \A j \in 1..Len(cages[id].bookings) :
                        j # first => cages'[id].bookings[j] = cages[id].bookings[j]
                  /\ cages'[id].price = cages[id].price
                  /\ cages'[id].square_meters = cages[id].square_meters
                  /\ cages'[id].allow_dangerous_snakes = cages[id].allow_dangerous_snakes
                  /\ \A other \in CageIds \ {id} : cages'[other] = cages[other]
                  /\ \A o \in Sessions \ {s} : doc'[o] = doc[o] ]_vars

(* The last call reserved window 1 of a two-window cage whose window 2 is  *)
(* open and covers the reserved range: both matched, the first was taken.  *)
C2_Witness ==
    \E s \in Sessions :
       /\ LastBooker(s) /\ ret.idx = 1
       /\ Len(doc[s].bookings) = 2
       /\ IsOpen(doc[s].bookings[2])
       /\ Covers(doc[s].bookings[2], doc[s].bookings[1].check_in_date,
                                     doc[s].bookings[1].check_out_date)
       /\ cages[doc[s].id].bookings = doc[s].bookings

(* C3 *)
(* After a successful book_cage(account, snake, cage, checkin, checkout)   *)
(* the reserved window of the cage has guest_owner_id = account.id,        *)
(* guest_snake_id = snake.id, the requested dates and booked_date set, and *)
(* the new range lies inside the window's range before the call.  The      *)
(* stored window carries the same guest fields and booked_date, and the    *)
(* same dates whenever the object's window was the stored one.             *)
C3_ReservedFields ==
    [][ (ret'.op = "book_cage" /\ ret'.outcome = "ok") =>
        \A s \in Sessions, r \in Requests, snake \in SnakeIds :
           BookCage(s, snake, r[1], r[2])
           => LET id == doc[s].id
                  i == ret'.idx
                  old == doc[s].bookings[i]
                  new == doc'[s].bookings[i]
                  kept == cages'[id].bookings[i]
              IN  /\ new.guest_owner_id = active_account[s]
                  /\ new.guest_snake_id = snake
                  /\ new.check_in_date = r[1]
                  /\ new.check_out_date = r[2]
                  /\ new.booked_date = now /\ new.booked_date # None
                  /\ old.check_in_date <= r[1] /\ r[2] <= old.check_out_date
                  /\ kept.guest_owner_id = active_account[s]
                  /\ kept.guest_snake_id = snake
                  /\ kept.booked_date = now
                  /\ cages[id].bookings[i] = old => kept = new ]_vars

(* The last call reserved one day out of a window: hosts only create       *)
(* windows of zero or two days.                                            *)
C3_Witness ==
    \E s \in Sessions :
       /\ LastBooker(s)
       /\ doc[s].bookings[ret.idx].check_out_date
             = doc[s].bookings[ret.idx].check_in_date + 1
       /\ doc[s].bookings[ret.idx].guest_owner_id = active_account[s]
       /\ cages[doc[s].id].bookings[ret.idx] = doc[s].bookings[ret.idx]

(* C4 *)
(* book_cage on a cage with no matching window fails with a distinct       *)
(* "no matching availability" error handed to the caller, and leaves the   *)
(* cage's windows unchanged in the object and in the store.                *)
C4_NoMatchFailsExplicitly ==
    [][ ret'.op = "book_cage" =>
        \A s \in Sessions, r \in Requests, snake \in SnakeIds :
           ( /\ BookCage(s, snake, r[1], r[2])
             /\ \A i \in 1..Len(doc[s].bookings) :
                   ~ ( Covers(doc[s].bookings[i], r[1], r[2])
                       /\ doc[s].bookings[i].guest_snake_id = None ) )
           => /\ ret'.outcome = "NoMatchingAvailability"
              /\ cages' = cages
              /\ doc' = doc ]_vars

(* C5 *)
(* A window is reserved at most once: a second book_cage on the cage whose *)
(* window the caller has just reserved, with no open window left for the   *)
(* requested range, fails with "no availability" and overwrites nothing    *)
(* of the first reservation.                                               *)
C5_SecondReserveFails ==
    [][ ret'.op = "book_cage" =>
        \A s \in Sessions, r \in Requests, snake \in SnakeIds :
           ( /\ BookCage(s, snake, r[1], r[2])
             /\ \E i \in 1..Len(doc[s].bookings) :
                   /\ doc[s].bookings[i].guest_owner_id = active_account[s]
                   /\ doc[s].bookings[i] = cages[doc[s].id].bookings[i]
             /\ \A i \in 1..Len(doc[s].bookings) :
                   ~ ( Covers(doc[s].bookings[i], r[1], r[2])
                       /\ doc[s].bookings[i].guest_snake_id = None ) )
           => /\ ret'.outcome = "NoMatchingAvailability"
              /\ cages' = cages
              /\ doc' = doc ]_vars

(* C6 *)
(* The lost update: when two sessions each hold a Cage object of the same  *)
(* cage in which the same window is reserved for themselves (each by its   *)
(* own successful book_cage), the store carries only the later one: its    *)
(* guest_owner_id, guest_snake_id and booked_date were written over the    *)
(* earlier session's, whose reservation is in no stored window.            *)
C6_LostUpdate ==
    \A s1 \in Sessions : \A s2 \in Sessions \ {s1} :
       \A i \in 1..Len(doc[s1].bookings) :
          ( /\ doc[s1].id = doc[s2].id
            /\ i <= Len(doc[s2].bookings)
            /\ doc[s1].bookings[i].guest_owner_id = active_account[s1]
            /\ doc[s2].bookings[i].guest_owner_id = active_account[s2]
            /\ doc[s1].bookings[i].booked_date < doc[s2].bookings[i].booked_date )
          => LET first == doc[s1].bookings[i]
                 second == doc[s2].bookings[i]
                 stored == cages[doc[s1].id].bookings
             IN  /\ stored[i].guest_owner_id = second.guest_owner_id
                 /\ stored[i].guest_snake_id = second.guest_snake_id
                 /\ stored[i].booked_date = second.booked_date
                 /\ \A j \in 1..Len(stored) :
                       ~ ( stored[j].guest_owner_id = first.guest_owner_id
                           /\ stored[j].booked_date = first.booked_date )

(* Both sessions read window 1 of a cage while it was open and both        *)
(* booked it: each object shows its own reservation, the store the second  *)
(* one only.                                                               *)
C6_Witness ==
    /\ ret.op = "book_cage" /\ ret.outcome = "ok"
    /\ doc[1].id = doc[2].id /\ doc[1].id # None
    /\ doc[1].bookings[1].guest_owner_id = active_account[1]
    /\ doc[2].bookings[1].guest_owner_id = active_account[2]
    /\ doc[1].bookings[1].booked_date < doc[2].bookings[1].booked_date
    /\ cages[doc[1].id].bookings[1] = doc[2].bookings[1]
    /\ doc[1].bookings[1].check_out_date # doc[2].bookings[1].check_out_date

(* C7 *)
(* No window splitting: a successful book_cage leaves the number of        *)
(* windows of every cage unchanged and creates no open window; and a       *)
(* query returns a cage only for an open window of it that covers the      *)
(* range, so a cage whose windows are all reserved is returned for no      *)
(* query.                                                                  *)
C7_NoSplit ==
    /\ [] ( \A r \in Requests, snake \in SnakeIds :
              \A result \in get_available_cages(cages, r[1], r[2], snake) :
                 \A k \in 1..Len(result) :
                    \E j \in 1..Len(cages[result[k]].bookings) :
                       /\ IsOpen(cages[result[k]].bookings[j])
                       /\ Covers(cages[result[k]].bookings[j], r[1], r[2]) )
    /\ [][ (ret'.op = "book_cage" /\ ret'.outcome = "ok") =>
           \A id \in CageIds :
              /\ Len(cages'[id].bookings) = Len(cages[id].bookings)
              /\ \A j \in 1..Len(cages'[id].bookings) :
                    IsOpen(cages'[id].bookings[j])
                       => cages'[id].bookings[j] = cages[id].bookings[j] ]_vars

(* Cage 1 holds a single window, reserved for days 1 to 2 out of the       *)
(* window [1, 3] a host created; the query that followed, whose range lay  *)
(* inside [1, 3] whatever it was, returned nothing.                        *)
C7_Witness ==
    /\ ret.op = "get_available_cages" /\ ret.result = <<>>
    /\ Len(cages[1].bookings) = 1
    /\ IsReserved(cages[1].bookings[1])
    /\ cages[1].bookings[1].check_in_date = 1
    /\ cages[1].bookings[1].check_out_date = 2
    /\ cages[2].bookings = <<>>

C9_OverlapNotChecked ==
    [][ ret'.op = "book_cage" =>
        \A s \in Sessions, r \in Requests, snake \in SnakeIds :
           BookCage(s, snake, r[1], r[2])
           => LET mine == doc[s].bookings
              IN  /\ ret'.outcome = "ok"
                        <=> \E j \in 1..Len(mine) :
                               IsOpen(mine[j]) /\ Covers(mine[j], r[1], r[2])
                  /\ ret'.outcome = "ok" =>
                        /\ IsOpen(mine[ret'.idx])
                        /\ \A k \in 1..Len(mine) :
                              IsReserved(mine[k]) => doc'[s].bookings[k] = mine[k] ]_vars

(* One session booked both windows of a cage for overlapping ranges; the   *)
(* store holds the two reservations.                                       *)
C9_Witness ==
    \E s \in Sessions :
       /\ LastBooker(s) /\ ret.idx = 2
       /\ Len(doc[s].bookings) = 2
       /\ doc[s].bookings[1].guest_owner_id = active_account[s]
       /\ doc[s].bookings[2].guest_owner_id = active_account[s]
       /\ doc[s].bookings[1].check_in_date < doc[s].bookings[2].check_out_date
       /\ doc[s].bookings[2].check_in_date < doc[s].bookings[1].check_out_date
       /\ cages[doc[s].id].bookings = doc[s].bookings

(* C10 *)
(* Every stored window is fully open or fully reserved, so the host's test *)
(* (booked_date set) and the matcher's test (guest_snake_id unset) agree;  *)
(* and a Cage object and the store that record the same reservation (the   *)
(* same booked_date at the same position) agree on the whole window: no    *)
(* reader sees the new guest fields with another date range.               *)
C10_AtomicWindow ==
    /\ \A id \in CageIds : \A i \in 1..Len(cages[id].bookings) :
          IsOpen(cages[id].bookings[i]) \/ IsReserved(cages[id].bookings[i])
    /\ \A s \in Sessions : \A i \in 1..Len(doc[s].bookings) :
          ( /\ doc[s].bookings[i].booked_date # None
            /\ doc[s].bookings[i].booked_date
                  = cages[doc[s].id].bookings[i].booked_date )
          => cages[doc[s].id].bookings[i] = doc[s].bookings[i]

(* What does hold of every write: every stored window is fully open or    *)
(* fully reserved and the two tests agree; a book_cage whose Cage object   *)
(* held the stored window leaves the complete reservation in the store,    *)
(* and one whose object was stale leaves the new guest fields and          *)
(* booked_date with, for each date, the requested or the stored value.     *)
OpenOrReserved ==
    /\ [] ( \A id \in CageIds : \A i \in 1..Len(cages[id].bookings) :
              /\ IsOpen(cages[id].bookings[i]) \/ IsReserved(cages[id].bookings[i])
              /\ cages[id].bookings[i].booked_date # None
                    <=> cages[id].bookings[i].guest_snake_id # None )
    /\ [][ (ret'.op = "book_cage" /\ ret'.outcome = "ok") =>
           \A s \in Sessions :
              (doc'[s] # doc[s]) =>
                 LET id == doc[s].id
                     i == ret'.idx
                     new == doc'[s].bookings[i]
                     was == cages[id].bookings[i]
                     kept == cages'[id].bookings[i]
                 IN  /\ kept.guest_owner_id = new.guest_owner_id
                     /\ kept.guest_snake_id = new.guest_snake_id
                     /\ kept.booked_date = new.booked_date
                     /\ kept.check_in_date \in {new.check_in_date, was.check_in_date}
                     /\ kept.check_out_date \in {new.check_out_date, was.check_out_date}
                     /\ was = doc[s].bookings[i] => kept = new ]_vars

(* A reserved window narrowed to one day is in the store after the last    *)
(* call, a book_cage, wrote it from an object that held the stored window. *)
OpenOrReservedSeen ==
    \E s \in Sessions :
       /\ LastBooker(s)
       /\ cages[doc[s].id].bookings[ret.idx] = doc[s].bookings[ret.idx]
       /\ IsReserved(cages[doc[s].id].bookings[ret.idx])
       /\ \E o \in Sessions \ {s} : doc[o].id = doc[s].id

(* C12 *)
(* The result of get_available_cages is ordered by price ascending, ties   *)
(* in price by square_meters descending, and cages equal in both keys come *)
(* in their stored (registration) order.                                   *)
C12_StableOrder ==
    \A r \in Requests, snake \in SnakeIds :
       \A result \in get_available_cages(cages, r[1], r[2], snake) :
          \A j \in 1..Len(result) : \A k \in (j + 1)..Len(result) :
             LET c1 == cages[result[j]]
                 c2 == cages[result[k]]
             IN  \/ c1.price < c2.price
                 \/ c1.price = c2.price /\ c1.square_meters > c2.square_meters
                 \/ /\ c1.price = c2.price
                    /\ c1.square_meters = c2.square_meters
                    /\ result[j] < result[k]

(* C12, as amended: the result is ordered by price ascending, ties in      *)
(* price by square_meters descending (the client-side filter keeps the     *)
(* query's order); the order of cages equal in both keys is not fixed.     *)
C12_OrderedByPriceThenSize ==
    \A r \in Requests, snake \in SnakeIds :
       \A result \in get_available_cages(cages, r[1], r[2], snake) :
          \A j \in 1..Len(result) : \A k \in (j + 1)..Len(result) :
             LET c1 == cages[result[j]]
                 c2 == cages[result[k]]
             IN  \/ c1.price < c2.price
                 \/ c1.price = c2.price /\ c1.square_meters >= c2.square_meters

(* A query returned both cages, the later-registered and cheaper cage 2    *)
(* first.                                                                  *)
C12_Witness ==
    /\ ret.op = "get_available_cages"
    /\ ret.result = <<2, 1>>
    /\ cages[2].price < cages[1].price

(* C13 *)
(* add_available_date with days = 0 stores a zero-length open window; no   *)
(* cage is returned by get_available_cages on the strength of such a       *)
(* window, and a stored zero-length open window is never changed again     *)
(* (book_cage never reserves it).                                          *)
C13_ZeroLengthUnmatchable ==
    /\ [] ( \A r \in Requests, snake \in SnakeIds :
              \A result \in get_available_cages(cages, r[1], r[2], snake) :
                 \A k \in 1..Len(result) :
                    \E j \in 1..Len(cages[result[k]].bookings) :
                       LET b == cages[result[k]].bookings[j]
                       IN  /\ b.check_in_date < b.check_out_date
                           /\ b.guest_snake_id = None
                           /\ Covers(b, r[1], r[2]) )
    /\ [][ ret'.op = "add_available_date" =>
           \A s \in Sessions, id \in CageIds, start_date \in StartDates :
              AddAvailableDate(s, id, start_date, 0)
              => LET b == cages'[id].bookings[Len(cages'[id].bookings)]
                 IN  /\ Len(cages'[id].bookings) = Len(cages[id].bookings) + 1
                     /\ IsOpen(b)
                     /\ b.check_in_date = start_date
                     /\ b.check_out_date = start_date ]_vars
    /\ [][ \A id \in CageIds : \A i \in 1..Len(cages[id].bookings) :
              ( /\ IsOpen(cages[id].bookings[i])
                /\ cages[id].bookings[i].check_in_date
                      = cages[id].bookings[i].check_out_date )
              => cages'[id].bookings[i] = cages[id].bookings[i] ]_vars

(* A session booked the second window of a cage whose first window is the  *)
(* zero-length open window [1, 1]: the scan passed over it, for a request  *)
(* starting on day 1.                                                      *)
C13_Witness ==
    \E s \in Sessions :
       /\ LastBooker(s) /\ ret.idx = 2
       /\ cages[doc[s].id].bookings[1] = Booking(1, 1)
       /\ doc[s].bookings[1] = Booking(1, 1)
       /\ cages[doc[s].id].bookings[2].check_in_date = 1
       /\ IsReserved(cages[doc[s].id].bookings[2])

(* C14 *)
(* get_available_cages is read-only: the call leaves the cages and their   *)
(* windows, the owners (with their snake and cage lists), the clock and    *)
(* every session's active account unchanged.                               *)
C14_QueryReadOnly ==
    [][ ret'.op = "get_available_cages" =>
           /\ cages' = cages
           /\ owners' = owners
           /\ state' = state
           /\ now' = now ]_allvars

(* A query ran on a store that holds a reservation and an open window and  *)
(* returned a cage.                                                        *)
C14_Witness ==
    /\ ret.op = "get_available_cages"
    /\ ret.result # <<>>
    /\ \E id \in CageIds : \E i \in 1..Len(cages[id].bookings) :
          IsReserved(cages[id].bookings[i])

(* C11 *)
(* A booking window is never deleted: in every step the list of windows    *)
(* of every cage keeps its length or grows, and each stored window stays   *)
(* at its position, as it was or reserved for a range inside its own.      *)
C11_WindowsNeverLost ==
    [][ \A id \in CageIds :
           /\ Len(cages'[id].bookings) >= Len(cages[id].bookings)
           /\ \A j \in 1..Len(cages[id].bookings) :
                 /\ cages'[id].bookings[j].check_in_date
                       >= cages[id].bookings[j].check_in_date
                 /\ cages'[id].bookings[j].check_out_date
                       <= cages[id].bookings[j].check_out_date ]_allvars

(* C15 *)
(* Once a session has an active account, no step of any session sets it    *)
(* back to None: not a failed login, a rejected account creation, a        *)
(* reload, a privileged command or a change of mode.                       *)
C15_NeverLoggedOut ==
    [][ \A s \in Sessions :
           state[s] # NoAccount => state'[s] # NoAccount ]_allvars

(* A logged-in session is in the host loop, having got there from the      *)
(* guest loop (a change of mode, with its reload), and the last command    *)
(* failed with a message.                                                  *)
C15_Witness ==
    /\ ret = Failed
    /\ \E s \in Sessions : state[s] # NoAccount /\ mode[s] = "host"
    /\ \E s \in Sessions : state[s] = NoAccount

(* C16 *)
(* A privileged command of a session with no active account prints the     *)
(* login message and returns: the store (owners, cages, windows), the      *)
(* clock and every session's account, loop, position and Cage object are   *)
(* as before, and the session is back at the prompt.                       *)
C16_PrivilegedNeedsLogin ==
    [][ \A s \in Sessions :
           ( /\ state[s] = NoAccount
             /\ \/ \E snake \in SnakeIds : AddASnake(s, snake)
                \/ ViewYourSnakes(s)
                \/ BookACageQuery(s)
                \/ GuestViewBookings(s)
                \/ \E id \in CageIds : RegisterCage(s, id)
                \/ ListCages(s)
                \/ \E id \in CageIds, start_date \in StartDates, days \in Days :
                      UpdateAvailability(s, id, start_date, days)
                \/ HostViewBookings(s) )
           => /\ ret' = MustLogIn
              /\ owners' = owners /\ cages' = cages /\ now' = now
              /\ state' = state /\ mode' = mode /\ doc' = doc
              /\ pc' = pc /\ pc'[s] = Idle ]_allvars

(* The login message was printed for a session without an account, in the  *)
(* host loop, while the store holds an owner with a registered cage that   *)
(* has a window.                                                           *)
C16_Witness ==
    /\ ret = MustLogIn
    /\ \E s \in Sessions : state[s] = NoAccount /\ mode[s] = "host"
    /\ \A s \in Sessions : pc[s] = Idle
    /\ LinkedCages(owners) # {}
    /\ NumWindows(cages) > 0

(* C17 *)
(* A login with an email no stored owner has prints a message and creates  *)
(* nothing; the command leaves the active account to the loop as it found  *)
(* it: None stays None, in the host loop the account is the same object,   *)
(* and in the guest loop it is what the loop's reload makes of it (an      *)
(* owner with the same email), as after an empty command.                  *)
C17_LoginMissHarmless ==
    [][ \A s \in Sessions, email \in Emails :
           ( /\ \A id \in 1..Len(owners) : owners[id].email # email
             /\ LogIntoAccount(s, email) )
           => /\ ret' = Failed
              /\ owners' = owners /\ cages' = cages
              /\ pc'[s] = Idle
              /\ \A o \in Sessions \ {s} : state'[o] = state[o]
              /\ state[s] = NoAccount => state'[s] = NoAccount
              /\ mode[s] = "host" => state'[s] = state[s]
              /\ state'[s].email = state[s].email
              /\ mode[s] = "guest"
                   => state'[s] \in reload_account(state[s], owners) ]_allvars

(* A logged-in session failed to log in (only "b" is unknown once an owner *)
(* exists) and is still logged in, the other session is not.               *)
C17_Witness ==
    /\ ret = Failed
    /\ Len(owners) = 1
    /\ state[1] = Load(owners, 1)
    /\ state[2] = NoAccount
    /\ mode = [s \in Sessions |-> "host"]

(* C18 *)
(* A command that runs reload_account on a set active account and assigns  *)
(* the account nowhere else (a change of mode in the guest loop, adding a  *)
(* snake, registering a cage) leaves the session with the same owner id,   *)
(* and the reload after create_account leaves the session with the owner   *)
(* just created, also when several stored owners share the email.          *)
C18_ReloadKeepsIdentity ==
    [][ \A s \in Sessions :
           /\ ( /\ state[s] # NoAccount
                /\ \/ \E m \in Modes : mode[s] = "guest" /\ ChangeMode(s, m)
                   \/ SaveOwner(s)
                   \/ \E id \in CageIds : RegisterCage(s, id) )
              => state'[s].id = state[s].id
           /\ CreateAccountSave(s) => state'[s].id = Len(owners') ]_allvars

(* C19 *)
(* In every reachable state no two stored owners have the same email.      *)
C19_EmailsUnique ==
    \A id1 \in 1..Len(owners) : \A id2 \in 1..Len(owners) :
          owners[id1].email = owners[id2].email => id1 = id2

(* C20 *)
(* Every reserved window stored in a cage was reserved for a snake the     *)
(* cage can take: four times the cage's square metres is at least the      *)
(* snake's length, and a venomous snake is only in a cage that allows      *)
(* dangerous snakes.                                                       *)
C20_ReservedFitsCage ==
    \A id \in DOMAIN cages : \A i \in 1..Len(cages[id].bookings) :
        IsReserved(cages[id].bookings[i])
        => LET snake == SnakeDoc(cages[id].bookings[i].guest_snake_id)
           IN  /\ 4 * cages[id].square_meters >= snake.length
               /\ snake.is_venomous => cages[id].allow_dangerous_snakes

(* The listed cage refuses dangerous snakes, the guest owns the venomous   *)
(* snake and a harmless one, and the harmless one has the window.          *)
C20_Witness ==
    \E id \in DOMAIN cages :
        /\ ~cages[id].allow_dangerous_snakes
        /\ \E i \in 1..Len(cages[id].bookings) :
              /\ IsReserved(cages[id].bookings[i])
              /\ ~SnakeDoc(cages[id].bookings[i].guest_snake_id).is_venomous
        /\ \E o \in 1..Len(owners) : \E k \in 1..Len(owners[o].snake_ids) :
              SnakeDoc(owners[o].snake_ids[k]).is_venomous

(* C21 *)
(* In the command loops every book_cage call is for a request with         *)
(* checkin < checkout and on a Cage object, returned by the query for that *)
(* request, that holds a matching open window; so no book_cage call of a   *)
(* command loop fails on a missing window.                                 *)
C21_NoFaultFromCLI ==
    /\ ret.op = "book_cage" => ret.outcome = "ok"
    /\ \A s \in Sessions :
          s \in Booked
          => /\ pc[s].checkin < pc[s].checkout
             /\ doc[s] # NoDoc
             /\ FindWindow(doc[s].bookings, 1, pc[s].checkin, pc[s].checkout) # None

(* Two book_cage calls of the command loops have gone through although the *)
(* store has one window only: the second guest's query ran before the      *)
(* first guest's reservation, and book_cage found the window in the Cage   *)
(* object the query had returned.                                          *)
C21_Witness ==
    /\ ret.op = "book_cage" /\ ret.outcome = "ok"
    /\ now = 3
    /\ NumWindows(cages) = 1
    /\ \A s \in Sessions : pc[s] = Idle

(* C22 *)
(* In every state of the command loops each reserved window's              *)
(* guest_snake_id is in the snake_ids of the stored owner its              *)
(* guest_owner_id names (so that view_bookings finds the snake of every    *)
(* booking of that owner among the owner's snakes).                        *)
C22_BookedSnakeOwned ==
    \A id \in DOMAIN cages : \A i \in 1..Len(cages[id].bookings) :
        LET b == cages[id].bookings[i]
        IN  IsReserved(b)
            => /\ b.guest_owner_id \in 1..Len(owners)
               /\ b.guest_snake_id \in get_snakes_for_user(owners, b.guest_owner_id)

====
